---- MODULE Spec2Model ----
(***************************************************************************)
(* Model of scribe_data/wiktionary/parse_dump.py: the LexemeProcessor      *)
(* (language registry, per-line processing, batching dump reader, index    *)
(* store save/load/lookup) and the parse_dump driver.                      *)
(*                                                                         *)
(* Python dicts are modelled as functions (the key set is the DOMAIN); a   *)
(* defaultdict and a dict with the same items are the same function, as    *)
(* Python's == has it.  Ordered dict iteration is modelled with sequences  *)
(* where the code depends on the order (the metadata tables, the lemmas    *)
(* of a lexeme, the senses of a lexeme).                                   *)
(***************************************************************************)
EXTENDS Integers, Sequences, FiniteSets, TLC

\* ------------------------------------------------------------------ bounds

\* Number of lines a modelled dump delivers at most.
MaxLines == 3

\* process_file is run with a batch_size in 1..MaxBatch.
MaxBatch == 2

\* Number of calls made on the store in StoreSpec.
MaxCalls == 4

\* ------------------------------------------------------------ mapping help

EmptyMap == <<>>

\* dict[k] = v
Put(m, k, v) == [x \in (DOMAIN m) \cup {k} |-> IF x = k THEN v ELSE m[x]]

\* dict.update(other)
Update(m, other) ==
    [x \in (DOMAIN m) \cup (DOMAIN other) |-> IF x \in DOMAIN other THEN other[x] ELSE m[x]]

\* dict comprehension keeping the keys in keep
Restrict(m, keep) == [x \in (DOMAIN m) \cap keep |-> m[x]]

\* ------------------------------------------------------------ static tables

\* target_iso = None (or any falsy value)
NoTarget == ""

\* scribe_data.utils.language_metadata: language name -> data, in table order.
\* A language either carries its own "iso" or a "sub_languages" table.  The
\* table lists nynorsk twice: as a sub-language of norwegian and on its own,
\* so that two languages declare the code "nn".
LanguageMetadata ==
    << [name |-> "english",   data |-> [iso |-> "en"]],
       [name |-> "norwegian", data |-> [sub_languages |-> << [iso |-> "nb"], [iso |-> "nn"] >>]],
       [name |-> "french",    data |-> [iso |-> "fr"]],
       [name |-> "nynorsk",   data |-> [iso |-> "nn"]] >>

\* scribe_data.utils.data_type_metadata: data type name -> QID, in table order.
DataTypeMetadata ==
    << [name |-> "autosuggestions", qid |-> ""],
       [name |-> "nouns",           qid |-> "Q1084"],
       [name |-> "verbs",           qid |-> "Q24905"] >>

\* data_type_metadata.values()
DataTypeValues == {DataTypeMetadata[i].qid : i \in DOMAIN DataTypeMetadata}

\* next((key for key, qid in data_type_metadata.items() if qid == lexicalCategory), None)
\* None is modelled by "".
CategoryName(lexicalCategory) ==
    LET hits == {i \in DOMAIN DataTypeMetadata : DataTypeMetadata[i].qid = lexicalCategory}
    IN  IF hits = {} THEN ""
        ELSE DataTypeMetadata[CHOOSE i \in hits : \A j \in hits : i <= j].name

\* ------------------------------------------------------- LexemeProcessor.__init__

\* for sublang_data in data["sub_languages"].values(): if "iso" in sublang_data: ...
RECURSIVE AddSubLanguages(_, _, _, _)
AddSubLanguages(reg, subs, j, lang_name) ==
    IF j > Len(subs) THEN reg
    ELSE AddSubLanguages(
            IF "iso" \in DOMAIN subs[j] THEN Put(reg, subs[j].iso, lang_name) ELSE reg,
            subs, j + 1, lang_name)

\* The loop of __init__ over language_metadata.items(), from entry i on.
\* Result: [ok, reg]; ok = FALSE is the KeyError of data["iso"].
RECURSIVE BuildRegistry(_, _, _)
BuildRegistry(i, target_iso, reg) ==
    IF i > Len(LanguageMetadata) THEN [ok |-> TRUE, reg |-> reg]
    ELSE LET lang_name == LanguageMetadata[i].name
             data      == LanguageMetadata[i].data
         IN  IF lang_name = target_iso
             THEN IF "iso" \in DOMAIN data
                  THEN [ok |-> TRUE, reg |-> Put(reg, data.iso, lang_name)]
                  ELSE [ok |-> FALSE, reg |-> reg]
             ELSE IF target_iso = NoTarget
                  THEN IF "iso" \in DOMAIN data
                       THEN BuildRegistry(i + 1, target_iso, Put(reg, data.iso, lang_name))
                       ELSE IF "sub_languages" \in DOMAIN data
                            THEN BuildRegistry(i + 1, target_iso,
                                     AddSubLanguages(reg, data.sub_languages, 1, lang_name))
                            ELSE BuildRegistry(i + 1, target_iso, reg)
                  ELSE BuildRegistry(i + 1, target_iso, reg)

\* ------------------------------------------------------------------ dump lines

\* str.lower() on the surface forms the modelled dumps use.
Lower(word) == IF word = "Hund" THEN "hund" ELSE word

\* A decompressed line.  text is what the line holds once stripped:
\*   "[", "]", ",", ""  the structural lines of an array-shaped dump,
\*   "obj"               one lexeme object, possibly followed by a comma,
\*   "[obj"              the array's opening bracket followed by a lexeme object,
\*   "bad"               text that is no JSON value.
\* For "obj" and "[obj" the lexeme is given by lemmas (the items of the lemmas
\* map in order, [] when the key is missing), cat (lexicalCategory, "" when
\* missing) and senses (the gloss map language -> gloss value of each sense).
NoLemmas == <<>>
NoSenses == <<>>

Lemma(value, language) == [value |-> value, language |-> language]

Line(text, lemmas, cat, senses) ==
    [text |-> text, lemmas |-> lemmas, cat |-> cat, senses |-> senses]

StructuralLines == {Line(t, NoLemmas, "", NoSenses) : t \in {"[", "]", ",", ""}}

\* text that is no JSON value
BadLine == Line("bad", NoLemmas, "", NoSenses)

\* "[" followed by a lexeme object on the same line
BracketLexemeLine ==
    Line("[obj", << Lemma("hund", "en") >>, "Q1084", << ("en" :> "g1") >>)

\* Lexemes with a lemma, a category and a gloss.
NounHund == Line("obj", << Lemma("Hund", "en") >>, "Q1084", << ("en" :> "g1") >>)

NounHundTwoSenses ==
    Line("obj", << Lemma("hund", "en"), Lemma("sol", "fr") >>, "Q1084",
         << ("en" :> "g1" @@ "fr" :> "g2"), ("en" :> "g3") >>)

VerbSol == Line("obj", << Lemma("sol", "fr") >>, "Q24905", << ("en" :> "g1" @@ "xx" :> "g2") >>)

OtherCategoryHund == Line("obj", << Lemma("hund", "en") >>, "Q0", << ("en" :> "g1") >>)

\* Lexemes that lack something.
NoLemmasLine == Line("obj", NoLemmas, "Q1084", << ("en" :> "g1") >>)

NoCategoryLine == Line("obj", << Lemma("hund", "en") >>, "", << ("en" :> "g1") >>)

UnknownAnchorLine ==
    Line("obj", << Lemma("hund", "xx"), Lemma("sol", "en") >>, "Q1084", << ("en" :> "g1") >>)

UnknownGlossLine == Line("obj", << Lemma("hund", "en") >>, "Q1084", << ("xx" :> "g2") >>)

NoSensesLine == Line("obj", << Lemma("hund", "en") >>, "Q24905", NoSenses)

EmptyWordLine == Line("obj", << Lemma("", "en") >>, "Q1084", << ("en" :> "g1") >>)

LexemeLines ==
    { NounHund, NounHundTwoSenses, VerbSol, OtherCategoryHund, NoLemmasLine, NoCategoryLine,
      UnknownAnchorLine, UnknownGlossLine, NoSensesLine, EmptyWordLine }

\* The lines a modelled dump is made of.
DumpLines == StructuralLines \cup {BadLine, BracketLexemeLine} \cup LexemeLines

\* ------------------------------------------ _process_lexeme_translations

\* The loop over senses: translations.update({code: gloss["value"] ... if code in iso_to_name})
RECURSIVE CollectTranslations(_, _, _, _)
CollectTranslations(translations, senses, k, iso_to_name) ==
    IF k > Len(senses) THEN translations
    ELSE CollectTranslations(
            Update(translations, Restrict(senses[k], DOMAIN iso_to_name)),
            senses, k + 1, iso_to_name)

\* defaultdict read: dd[key] of a missing key is a fresh empty mapping
Sub(dd, key) == IF key \in DOMAIN dd THEN dd[key] ELSE EmptyMap

\* InsertTranslations merging into the entry already stored at the triple.
MergeTranslations(word_index, word, word_lang, datatype, translations) ==
    Put(word_index, word,
        Put(Sub(word_index, word), word_lang,
            Put(Sub(Sub(word_index, word), word_lang), datatype,
                Update(Sub(Sub(Sub(word_index, word), word_lang), datatype), translations))))

\* self.word_index[word][word_lang][datatype] = translations
InsertTranslations(word_index, word, word_lang, datatype, translations) ==
    Put(word_index, word,
        Put(Sub(word_index, word), word_lang,
            Put(Sub(Sub(word_index, word), word_lang), datatype, translations)))

\* ProcessLexemeTranslations without the registry check of the anchor language.
ProcessLexemeTranslationsAnyAnchor(word_index, iso_to_name, lexeme) ==
    IF lexeme.lemmas = NoLemmas \/ lexeme.cat = "" THEN word_index
    ELSE LET first_lemma  == lexeme.lemmas[1]
             word         == Lower(first_lemma.value)
             word_lang    == first_lemma.language
             translations == CollectTranslations(EmptyMap, lexeme.senses, 1, iso_to_name)
         IN  IF word = "" THEN word_index
             ELSE IF translations = EmptyMap THEN word_index
             ELSE InsertTranslations(word_index, word, word_lang, lexeme.cat, translations)

\* ProcessLexemeTranslations without the check for an empty gloss set.
ProcessLexemeTranslationsKeepEmpty(word_index, iso_to_name, lexeme) ==
    IF lexeme.lemmas = NoLemmas \/ lexeme.cat = "" THEN word_index
    ELSE LET first_lemma  == lexeme.lemmas[1]
             word         == Lower(first_lemma.value)
             word_lang    == first_lemma.language
             translations == CollectTranslations(EmptyMap, lexeme.senses, 1, iso_to_name)
         IN  IF word = "" \/ word_lang \notin DOMAIN iso_to_name THEN word_index
             ELSE InsertTranslations(word_index, word, word_lang, lexeme.cat, translations)

ProcessLexemeTranslations(word_index, iso_to_name, lexeme) ==
    IF lexeme.lemmas = NoLemmas \/ lexeme.cat = "" THEN word_index
    ELSE LET first_lemma  == lexeme.lemmas[1]
             word         == Lower(first_lemma.value)
             word_lang    == first_lemma.language
             translations == CollectTranslations(EmptyMap, lexeme.senses, 1, iso_to_name)
         IN  IF word = "" \/ word_lang \notin DOMAIN iso_to_name THEN word_index
             ELSE IF translations = EmptyMap THEN word_index
             ELSE InsertTranslations(word_index, word, word_lang, lexeme.cat, translations)

\* ------------------------------------------------- _process_lexeme_total

\* self.lexical_category_counts[lang][category_name] += 1
CountOne(counts, lang, category_name) ==
    LET c == Sub(counts, lang)
    IN  Put(counts, lang,
            Put(c, category_name,
                IF category_name \in DOMAIN c THEN c[category_name] + 1 ELSE 1))

\* TotalLoop without the break: one count per lemma of a registry language.
RECURSIVE TotalLoopEveryLemma(_, _, _, _, _)
TotalLoopEveryLemma(counts, lemmas, k, iso_to_name, lexicalCategory) ==
    IF k > Len(lemmas) THEN counts
    ELSE LET lang == lemmas[k].language
             category_name == CategoryName(lexicalCategory)
         IN  TotalLoopEveryLemma(
                IF lang \in DOMAIN iso_to_name /\ category_name # ""
                THEN CountOne(counts, lang, category_name) ELSE counts,
                lemmas, k + 1, iso_to_name, lexicalCategory)

\* for lemma in lemmas.values(): ... break at the first lemma of a registry language
RECURSIVE TotalLoop(_, _, _, _, _)
TotalLoop(counts, lemmas, k, iso_to_name, lexicalCategory) ==
    IF k > Len(lemmas) THEN counts
    ELSE LET lang == lemmas[k].language
         IN  IF lang \in DOMAIN iso_to_name
             THEN LET category_name == CategoryName(lexicalCategory)
                  IN  IF category_name # "" THEN CountOne(counts, lang, category_name)
                      ELSE counts
             ELSE TotalLoop(counts, lemmas, k + 1, iso_to_name, lexicalCategory)

ProcessLexemeTotal(counts, iso_to_name, lexeme) ==
    IF lexeme.cat = "" \/ lexeme.cat \notin DataTypeValues THEN counts
    ELSE TotalLoop(counts, lexeme.lemmas, 1, iso_to_name, lexeme.cat)

\* ------------------------------------------------------- process_lines

\* orjson.loads(line.strip().rstrip(",")) succeeds and yields an object
ParsesToObject(line) == line.text = "obj"

\* A run's mutable part: [word_index, lexical_category_counts, processed_entries, batch].
\* process_lines catches every exception of the parse and of the processing and
\* returns {}: the store is then as it was.
ProcessLines(run, line, iso_to_name, parse_type) ==
    IF ~ParsesToObject(line) THEN run
    ELSE IF parse_type = "translations"
         THEN [run EXCEPT !.word_index =
                    ProcessLexemeTranslations(run.word_index, iso_to_name, line)]
    ELSE IF parse_type = "total"
         THEN [run EXCEPT !.lexical_category_counts =
                    ProcessLexemeTotal(run.lexical_category_counts, iso_to_name, line)]
    ELSE run

\* _process_batch: for line in batch: self.process_lines(line)
RECURSIVE ProcessBatch(_, _, _, _, _)
ProcessBatch(run, batch, k, iso_to_name, parse_type) ==
    IF k > Len(batch) THEN run
    ELSE ProcessBatch(ProcessLines(run, batch[k], iso_to_name, parse_type),
                      batch, k + 1, iso_to_name, parse_type)

\* ------------------------------------------------------- process_file

\* stripped_line in ["]", "[", ",", ""]
IsStructural(line) == line.text \in {"]", "[", ",", ""}

\* first_line.strip().startswith("[")
StartsWithBracket(line) == line.text \in {"[", "[obj"}

\* One iteration of the loop over the lines of the dump.
LoopBody(run, line, batch_size, iso_to_name, parse_type) ==
    IF IsStructural(line) THEN run
    ELSE LET appended == Append(run.batch, line)
             flushed  == IF Len(appended) >= batch_size
                         THEN [ProcessBatch(run, appended, 1, iso_to_name, parse_type)
                                  EXCEPT !.batch = <<>>]
                         ELSE [run EXCEPT !.batch = appended]
         IN  [flushed EXCEPT !.processed_entries = @ + 1]

\* ProcessRemaining that forgets the trailing partial batch.
DropRemaining(run, iso_to_name, parse_type) == [run EXCEPT !.batch = <<>>]

\* After the loop: if batch: self._process_batch(batch)
ProcessRemaining(run, iso_to_name, parse_type) ==
    IF run.batch # <<>>
    THEN [ProcessBatch(run, run.batch, 1, iso_to_name, parse_type) EXCEPT !.batch = <<>>]
    ELSE run

FreshRun ==
    [word_index |-> EmptyMap, lexical_category_counts |-> EmptyMap,
     processed_entries |-> 0, batch |-> <<>>]

\* ------------------------------------------------------- index store

\* The keys of a dict in the order json.dump iterates them.
RECURSIVE KeySeq(_)
KeySeq(keys) ==
    IF keys = {} THEN <<>>
    ELSE LET k == CHOOSE x \in keys : TRUE IN <<k>> \o KeySeq(keys \ {k})

\* _convert_defaultdict_to_dict: the same items in plain dicts
ConvertDefaultdictToDict(dd) == dd

\* json.dump of a mapping nested depth levels deep over string leaves:
\* a JSON object is the sequence of its <<key, value>> members.
RECURSIVE JsonDump(_, _)
JsonDump(value, depth) ==
    IF depth = 0 THEN [t |-> "str", v |-> value]
    ELSE LET keys == KeySeq(DOMAIN value)
         IN  [t |-> "obj",
              members |-> [i \in 1..Len(keys) |->
                              <<keys[i], JsonDump(value[keys[i]], depth - 1)>>]]

\* Files whose content is no JSON document, and one holding a JSON list.
CorruptFile == [t |-> "corrupt"]
ListFile == [t |-> "list"]

\* word -> language -> category -> target language -> gloss
IndexDepth == 4

\* language_iso = None
NoLanguage == ""

\* base_path.parent / full_language_name / base_path.name
LangFilepath(filepath, full_language_name) ==
    SubSeq(filepath, 1, Len(filepath) - 1) \o <<full_language_name, filepath[Len(filepath)]>>

\* filtered_index of save_index
FilteredIndex(word_index, language_iso) ==
    [word \in {w \in DOMAIN word_index : language_iso \in DOMAIN word_index[w]} |->
        (language_iso :> word_index[word][language_iso])]

\* save_index: the file system after the call
SaveIndex(fs, word_index, iso_to_name, filepath, language_iso) ==
    IF language_iso # NoLanguage
    THEN IF language_iso \notin DOMAIN iso_to_name THEN fs
         ELSE Put(fs, LangFilepath(filepath, iso_to_name[language_iso]),
                  JsonDump(FilteredIndex(word_index, language_iso), IndexDepth))
    ELSE Put(fs, filepath, JsonDump(ConvertDefaultdictToDict(word_index), IndexDepth))

\* RecursiveUpdate that creates the nested mapping and does not fill it.
RECURSIVE RecursiveUpdateShallow(_, _, _)
RecursiveUpdateShallow(dd, members, k) ==
    IF k > Len(members) THEN dd
    ELSE RecursiveUpdateShallow(
            Put(dd, members[k][1],
                IF members[k][2].t = "obj" THEN EmptyMap ELSE members[k][2].v),
            members, k + 1)

\* _recursive_update(dd, data) over the members of data from member k on
RECURSIVE RecursiveUpdate(_, _, _)
RecursiveUpdate(dd, members, k) ==
    IF k > Len(members) THEN dd
    ELSE LET key   == members[k][1]
             value == members[k][2]
         IN  RecursiveUpdate(
                Put(dd, key, IF value.t = "obj"
                             THEN RecursiveUpdate(EmptyMap, value.members, 1)
                             ELSE value.v),
                members, k + 1)

\* load_index: [word_index, result] after the call
LoadIndex(fs, word_index, filepath) ==
    IF filepath \notin DOMAIN fs
    THEN [word_index |-> word_index, result |-> "not_found"]
    ELSE IF fs[filepath].t = "corrupt"
    THEN [word_index |-> word_index, result |-> "error"]
    ELSE IF fs[filepath].t # "obj"
    THEN [word_index |-> EmptyMap, result |-> "error"]
    ELSE [word_index |-> RecursiveUpdate(EmptyMap, fs[filepath].members, 1),
          result |-> "loaded"]

\* get_word_info: self.word_index.get(word.lower(), {})
GetWordInfo(word_index, word) ==
    IF Lower(word) \in DOMAIN word_index THEN word_index[Lower(word)] ELSE EmptyMap

\* ------------------------------------------------------- parse_dump

\* Path(type_output_dir) / f"lexeme_index_{parse_type}.json"
IndexPath == <<"lexeme_index.json">>

\* IsoCodes taken from the registry's usual languages instead of the index alone.
IsoCodesWithDefaults(word_index) ==
    {"en", "fr"} \cup UNION {DOMAIN word_index[w] : w \in DOMAIN word_index}

\* iso_codes of parse_dump: every language key under any word
IsoCodes(word_index) == UNION {DOMAIN word_index[w] : w \in DOMAIN word_index}

\* The orders in which a set can be iterated.
Orders(S) ==
    {o \in [1..Cardinality(S) -> S] : \A i, j \in 1..Cardinality(S) : o[i] = o[j] => i = j}

\* for iso_code in iso_codes: if iso_code in processor.iso_to_name: save_index(path, iso_code)
RECURSIVE SaveEach(_, _, _, _, _, _)
SaveEach(fs, word_index, iso_to_name, filepath, order, k) ==
    IF k > Len(order) THEN fs
    ELSE SaveEach(
            IF order[k] \in DOMAIN iso_to_name
            THEN SaveIndex(fs, word_index, iso_to_name, filepath, order[k])
            ELSE fs,
            word_index, iso_to_name, filepath, order, k + 1)

\* ------------------------------------------------ what the lines should yield

\* The glosses of a lexeme in registry languages; where several senses gloss
\* the same language, the last sense's gloss.
KnownGlosses(line, iso_to_name) ==
    LET holds(c) == {k \in DOMAIN line.senses : c \in DOMAIN line.senses[k]}
        last(c)  == CHOOSE k \in holds(c) : \A j \in holds(c) : j <= k
    IN  [c \in {c \in DOMAIN iso_to_name : holds(c) # {}} |-> line.senses[last(c)][c]]

HasKnownAnchor(line, iso_to_name) ==
    /\ line.text = "obj"
    /\ line.lemmas # NoLemmas
    /\ line.lemmas[1].language \in DOMAIN iso_to_name

\* A line the translation index takes an entry from.
Accepted(line, iso_to_name) ==
    /\ HasKnownAnchor(line, iso_to_name)
    /\ line.cat # ""
    /\ Lower(line.lemmas[1].value) # ""
    /\ KnownGlosses(line, iso_to_name) # EmptyMap

Triple(line) == <<Lower(line.lemmas[1].value), line.lemmas[1].language, line.cat>>

KnownCategoryCodes == DataTypeValues \ {""}

\* A line the tally counts: known category, some lemma of a registry language.
Eligible(line, iso_to_name) ==
    /\ line.text = "obj"
    /\ line.cat \in KnownCategoryCodes
    /\ \E k \in DOMAIN line.lemmas : line.lemmas[k].language \in DOMAIN iso_to_name

FirstRegistryLanguage(line, iso_to_name) ==
    LET ks == {k \in DOMAIN line.lemmas : line.lemmas[k].language \in DOMAIN iso_to_name}
    IN  line.lemmas[CHOOSE k \in ks : \A j \in ks : k <= j].language

\* The lines the per-line tolerance is about.
Malformed(line) == line.text \in {"bad", "[obj"}

LacksField(line) == line.text = "obj" /\ (line.lemmas = NoLemmas \/ line.cat = "")

UnknownAnchor(line, iso_to_name) ==
    /\ line.text = "obj"
    /\ line.lemmas # NoLemmas
    /\ line.lemmas[1].language \notin DOMAIN iso_to_name

NoKnownGloss(line, iso_to_name) ==
    line.text = "obj" /\ KnownGlosses(line, iso_to_name) = EmptyMap

Tolerated(line, iso_to_name, mode) ==
    \/ Malformed(line)
    \/ LacksField(line)
    \/ mode = "translations" /\ UnknownAnchor(line, iso_to_name)
    \/ mode = "translations" /\ NoKnownGloss(line, iso_to_name)

NoExpectation == [last |-> EmptyMap, anchors |-> {}, tally |-> EmptyMap, eligible |-> 0]

\* The expectation after one more line of the dump has been handed over.
Expect(exp, line, iso_to_name, mode) ==
    IF mode = "translations"
    THEN [exp EXCEPT
            !.last    = IF Accepted(line, iso_to_name)
                        THEN Put(@, Triple(line), KnownGlosses(line, iso_to_name))
                        ELSE @,
            !.anchors = IF HasKnownAnchor(line, iso_to_name)
                        THEN @ \cup {Lower(line.lemmas[1].value)}
                        ELSE @]
    ELSE IF Eligible(line, iso_to_name)
    THEN LET key == <<FirstRegistryLanguage(line, iso_to_name), CategoryName(line.cat)>>
         IN  [exp EXCEPT
                !.tally    = Put(@, key, IF key \in DOMAIN @ THEN @[key] + 1 ELSE 1),
                !.eligible = @ + 1]
    ELSE exp

\* ------------------------------------------------------------------ state

VARIABLES
    pc,                       \* where the run stands
    target_iso,               \* LexemeProcessor.target_iso
    parse_type,               \* LexemeProcessor.parse_type
    iso_to_name,              \* LexemeProcessor.iso_to_name
    word_index,               \* LexemeProcessor.word_index
    lexical_category_counts,  \* LexemeProcessor.lexical_category_counts
    stats,                    \* LexemeProcessor.stats
    batch,                    \* batch of process_file
    batch_size,               \* batch_size of process_file
    nread,                    \* lines the dump has delivered so far
    reported,                 \* what process_file logged: "none", "not_found", "error"
    files,                    \* the file system: path -> content
    ref,                      \* the same lines run with batch_size 1
    clean,                    \* the same lines without the tolerated ones
    expected,                 \* what the lines handed over so far should yield
    seen,                     \* the lines handed over so far
    lost,                     \* the non-structural lines read and never handed over
    calls,                    \* calls made on the store
    snapshot,                 \* word_index when IndexPath was last saved in full
    last_call                 \* the last call made on the store

vars ==
    <<pc, target_iso, parse_type, iso_to_name, word_index, lexical_category_counts, stats,
      batch, batch_size, nread, reported, files, ref, clean, expected, seen, lost,
      calls, snapshot, last_call>>

storeVars == <<calls, snapshot, last_call>>

Targets == {NoTarget} \cup {LanguageMetadata[i].name : i \in DOMAIN LanguageMetadata}

ParseTypes == {"translations", "total"}

NoCall == [op |-> "none", filepath |-> <<>>, result |-> "none"]

\* The mutable part of the run in progress.
Run ==
    [word_index |-> word_index, lexical_category_counts |-> lexical_category_counts,
     processed_entries |-> stats.processed_entries, batch |-> batch]

SetRun(run) ==
    /\ word_index' = run.word_index
    /\ lexical_category_counts' = run.lexical_category_counts
    /\ stats' = [stats EXCEPT !.processed_entries = run.processed_entries]
    /\ batch' = run.batch

Init ==
    /\ pc = "start"
    /\ target_iso = NoTarget
    /\ parse_type = "translations"
    /\ iso_to_name = EmptyMap
    /\ word_index = EmptyMap
    /\ lexical_category_counts = EmptyMap
    /\ stats = [processed_entries |-> 0, unique_words |-> 0]
    /\ batch = <<>>
    /\ batch_size = 1
    /\ nread = 0
    /\ reported = "none"
    /\ files = EmptyMap
    /\ ref = FreshRun
    /\ clean = FreshRun
    /\ expected = NoExpectation
    /\ seen = {}
    /\ lost = {}
    /\ calls = 0
    /\ snapshot = EmptyMap
    /\ last_call = NoCall

\* LexemeProcessor(target_iso, parse_type), as parse_dump constructs it.
\* The KeyError of data["iso"] leaves parse_dump: the run has crashed.
Construct(target, mode) ==
    /\ pc = "start"
    /\ LET built == BuildRegistry(1, target, EmptyMap)
       IN  /\ pc' = IF built.ok THEN "constructed" ELSE "crashed"
           /\ iso_to_name' = built.reg
    /\ target_iso' = target
    /\ parse_type' = mode
    /\ UNCHANGED <<word_index, lexical_category_counts, stats, batch, batch_size, nread,
                   reported, files, ref, clean, expected, seen, lost>>
    /\ UNCHANGED storeVars

\* process_file up to the open: Path(file_path).stat() raises FileNotFoundError
\* for a missing dump, which process_file catches and reports.
OpenDump(exists, size) ==
    /\ pc = "constructed"
    /\ IF exists
       THEN pc' = "opened" /\ reported' = reported
       ELSE pc' = "processed" /\ reported' = "not_found"
    /\ batch_size' = size
    /\ UNCHANGED <<target_iso, parse_type, iso_to_name, word_index, lexical_category_counts,
                   stats, batch, nread, files, ref, clean, expected, seen, lost>>
    /\ UNCHANGED storeVars

\* The line the loop body is run on, in every run that is followed.
Deliver(line) ==
    /\ SetRun(LoopBody(Run, line, batch_size, iso_to_name, parse_type))
    /\ ref' = LoopBody(ref, line, 1, iso_to_name, parse_type)
    /\ clean' = IF Tolerated(line, iso_to_name, parse_type) THEN clean
                ELSE LoopBody(clean, line, batch_size, iso_to_name, parse_type)
    /\ expected' = IF IsStructural(line) THEN expected
                   ELSE Expect(expected, line, iso_to_name, parse_type)
    /\ seen' = IF IsStructural(line) THEN seen ELSE seen \cup {line}
    /\ lost' = lost

\* first_line = bzfile.readline(); a first line that starts with "[" is consumed,
\* any other is read again by the loop after seek(0).
ReadFirstLine(line) ==
    /\ pc = "opened"
    /\ nread < MaxLines
    /\ pc' = "reading"
    /\ nread' = nread + 1
    /\ IF StartsWithBracket(line)
       THEN /\ lost' = IF IsStructural(line) THEN lost ELSE lost \cup {line}
            /\ UNCHANGED <<word_index, lexical_category_counts, stats, batch, ref, clean,
                           expected, seen>>
       ELSE Deliver(line)
    /\ UNCHANGED <<target_iso, parse_type, iso_to_name, batch_size, reported, files>>
    /\ UNCHANGED storeVars

\* One iteration of the loop over the remaining lines.
ReadLine(line) ==
    /\ pc = "reading"
    /\ nread < MaxLines
    /\ nread' = nread + 1
    /\ Deliver(line)
    /\ UNCHANGED <<pc, target_iso, parse_type, iso_to_name, batch_size, reported, files>>
    /\ UNCHANGED storeVars

\* The decompressor raises (OSError, EOFError, UnicodeDecodeError) on a read:
\* except Exception logs it and process_file returns; the pending batch is lost.
StreamError ==
    /\ pc \in {"opened", "reading"}
    /\ pc' = "processed"
    /\ reported' = "error"
    /\ batch' = <<>>
    /\ UNCHANGED <<target_iso, parse_type, iso_to_name, word_index, lexical_category_counts,
                   stats, batch_size, nread, files, ref, clean, expected, seen, lost>>
    /\ UNCHANGED storeVars

\* The dump is exhausted: the remaining batch is processed, the stats are set.
EndOfFile ==
    /\ pc \in {"opened", "reading"}
    /\ pc' = "processed"
    /\ LET run == ProcessRemaining(Run, iso_to_name, parse_type)
       IN  /\ word_index' = run.word_index
           /\ lexical_category_counts' = run.lexical_category_counts
           /\ batch' = run.batch
           /\ stats' = [processed_entries |-> run.processed_entries,
                        unique_words |-> Cardinality(DOMAIN run.word_index)]
    /\ ref' = ProcessRemaining(ref, iso_to_name, parse_type)
    /\ clean' = ProcessRemaining(clean, iso_to_name, parse_type)
    /\ UNCHANGED <<target_iso, parse_type, iso_to_name, batch_size, nread, reported, files,
                   expected, seen, lost>>
    /\ UNCHANGED storeVars

\* parse_dump after process_file has returned: in translation mode one
\* save_index per language code found in the index.
FinishParseDump ==
    /\ pc = "processed"
    /\ pc' = "done"
    /\ IF parse_type = "total"
       THEN files' = files
       ELSE \E order \in Orders(IsoCodes(word_index)) :
                files' = SaveEach(files, word_index, iso_to_name, IndexPath, order, 1)
    /\ UNCHANGED <<target_iso, parse_type, iso_to_name, word_index, lexical_category_counts,
                   stats, batch, batch_size, nread, reported, ref, clean, expected, seen,
                   lost>>
    /\ UNCHANGED storeVars

Next ==
    \/ \E target \in Targets, mode \in ParseTypes : Construct(target, mode)
    \/ \E exists \in BOOLEAN, size \in 1..MaxBatch : OpenDump(exists, size)
    \/ \E line \in DumpLines : ReadFirstLine(line)
    \/ \E line \in DumpLines : ReadLine(line)
    \/ StreamError
    \/ EndOfFile
    \/ FinishParseDump

Spec == Init /\ [][Next]_vars

\* ------------------------------------------------- the store, called directly

MissingPath == <<"missing.json">>
CorruptPath == <<"corrupt.json">>
ListPath == <<"list.json">>

StorePaths ==
    {IndexPath, MissingPath, CorruptPath, ListPath, LangFilepath(IndexPath, "english")}

\* The lines handed to process_lines in StoreSpec.
StoreLines == {NounHund, NounHundTwoSenses, VerbSol, UnknownAnchorLine, BadLine}

\* A LexemeProcessor(parse_type="translations") with an empty store, next to a
\* file that is no JSON and a file that holds a JSON list.
StoreInit ==
    /\ pc = "store"
    /\ target_iso = NoTarget
    /\ parse_type = "translations"
    /\ iso_to_name = BuildRegistry(1, NoTarget, EmptyMap).reg
    /\ word_index = EmptyMap
    /\ lexical_category_counts = EmptyMap
    /\ stats = [processed_entries |-> 0, unique_words |-> 0]
    /\ batch = <<>>
    /\ batch_size = 1
    /\ nread = 0
    /\ reported = "none"
    /\ files = (CorruptPath :> CorruptFile @@ ListPath :> ListFile)
    /\ ref = FreshRun
    /\ clean = FreshRun
    /\ expected = NoExpectation
    /\ seen = {}
    /\ lost = {}
    /\ calls = 0
    /\ snapshot = EmptyMap
    /\ last_call = NoCall

runVars ==
    <<pc, target_iso, parse_type, iso_to_name, stats, batch, batch_size, nread, reported,
      ref, clean, expected, seen, lost>>

\* processor.process_lines(line)
CallProcessLines(line) ==
    /\ pc = "store"
    /\ calls < MaxCalls
    /\ calls' = calls + 1
    /\ LET run == ProcessLines(Run, line, iso_to_name, parse_type)
       IN  /\ word_index' = run.word_index
           /\ lexical_category_counts' = run.lexical_category_counts
    /\ last_call' = [op |-> "process_lines", filepath |-> <<>>, result |-> "none"]
    /\ UNCHANGED <<files, snapshot>>
    /\ UNCHANGED runVars

\* processor.save_index(filepath, language_iso)
CallSaveIndex(filepath, language_iso) ==
    /\ pc = "store"
    /\ calls < MaxCalls
    /\ calls' = calls + 1
    /\ files' = SaveIndex(files, word_index, iso_to_name, filepath, language_iso)
    /\ snapshot' = IF language_iso = NoLanguage /\ filepath = IndexPath
                   THEN word_index ELSE snapshot
    /\ last_call' = [op |-> "save_index", filepath |-> filepath, result |-> "none"]
    /\ UNCHANGED <<word_index, lexical_category_counts>>
    /\ UNCHANGED runVars

\* processor.load_index(filepath)
CallLoadIndex(filepath) ==
    /\ pc = "store"
    /\ calls < MaxCalls
    /\ calls' = calls + 1
    /\ LET loaded == LoadIndex(files, word_index, filepath)
       IN  /\ word_index' = loaded.word_index
           /\ last_call' = [op |-> "load_index", filepath |-> filepath,
                            result |-> loaded.result]
    /\ UNCHANGED <<lexical_category_counts, files, snapshot>>
    /\ UNCHANGED runVars

StoreNext ==
    \/ \E line \in StoreLines : CallProcessLines(line)
    \/ \E language_iso \in {NoLanguage, "en", "xx"} : CallSaveIndex(IndexPath, language_iso)
    \/ \E filepath \in StorePaths : CallLoadIndex(filepath)

StoreSpec == StoreInit /\ [][StoreNext]_vars

\* ------------------------------------------------------------------ claims

Finished == pc \in {"processed", "done"} /\ reported = "none"

\* Every language key of the index, at the source and at the target level.
KnownCodesOnly(index, registry) ==
    \A w \in DOMAIN index : \A l \in DOMAIN index[w] :
        /\ l \in DOMAIN registry
        /\ \A c \in DOMAIN index[w][l] : DOMAIN index[w][l][c] \subseteq DOMAIN registry

\* C1: in translation mode every language code that is a key of word_index, at
\* the source level and at the target level, is a key of iso_to_name, and every
\* word key comes from a line whose anchor lemma's language is in iso_to_name.
C1_FilteringInvariant ==
    parse_type = "translations" =>
        /\ KnownCodesOnly(word_index, iso_to_name)
        /\ DOMAIN word_index \subseteq expected.anchors

\* C1 witness: with target english, a line anchored in fr and a line anchored in
\* xx were processed next to an accepted one, whose xx gloss was not stored.
C1_Witness ==
    /\ parse_type = "translations"
    /\ target_iso = "english"
    /\ Finished
    /\ seen = {VerbSol, UnknownAnchorLine, NounHundTwoSenses}
    /\ DOMAIN word_index = {"hund"}
    /\ word_index["hund"]["en"]["Q1084"] = ("en" :> "g3")

\* C2: after a stream error of the dump reader no index file has been written.
C2_NoIndexAfterStreamError == reported = "error" => files = EmptyMap

\* C3: when the dump file does not exist the run ends, reports the missing
\* file, reads nothing and writes no index file.
C3_MissingDumpWritesNothing ==
    reported = "not_found" =>
        /\ pc \in {"processed", "done"}
        /\ nread = 0
        /\ word_index = EmptyMap
        /\ files = EmptyMap

\* C3 witness: a translation run has ended on a missing dump.
C3_Witness == reported = "not_found" /\ pc = "done" /\ parse_type = "translations"

\* C6: a finished process_file leaves the same word_index, the same
\* lexical_category_counts and the same processed_entries as the run of the
\* same lines with batch_size 1.
C6_BatchInvariance ==
    Finished =>
        /\ word_index = ref.word_index
        /\ lexical_category_counts = ref.lexical_category_counts
        /\ stats.processed_entries = ref.processed_entries

\* C6 witness: three lines with batch_size 2, the third in the trailing partial
\* batch, the second overwritten by the third.
C6_Witness ==
    /\ Finished
    /\ parse_type = "translations"
    /\ batch_size = 2
    /\ stats.processed_entries = 3
    /\ seen = {VerbSol, NounHundTwoSenses, NounHund}
    /\ "sol" \in DOMAIN word_index
    /\ word_index["hund"]["en"]["Q1084"] = ("en" :> "g1")

\* The (word, language, category) triples of an index and their entries.
Triples(index) ==
    UNION { UNION { {<<w, l, c>> : c \in DOMAIN index[w][l]} : l \in DOMAIN index[w] }
            : w \in DOMAIN index }

FlatIndex(index) == [t \in Triples(index) |-> index[t[1]][t[2]][t[3]]]

\* C7: in translation mode, once every line handed over is processed, the entry
\* of each (word, language, category) triple is the registry-filtered gloss set
\* of the last accepted line with that triple, and only those triples have one.
C7_LastWriteWins ==
    (parse_type = "translations" /\ batch = <<>> /\ reported = "none") =>
        FlatIndex(word_index) = expected.last

\* C7 witness: the entry of (hund, en, Q1084) was written by the two-sense line
\* and then replaced by the one-gloss line, next to another triple.
C7_Witness ==
    /\ parse_type = "translations"
    /\ target_iso = NoTarget
    /\ batch = <<>>
    /\ reported = "none"
    /\ seen = {NounHundTwoSenses, NounHund, OtherCategoryHund}
    /\ word_index["hund"]["en"] = ("Q1084" :> ("en" :> "g1") @@ "Q0" :> ("en" :> "g1"))

AllCodes == {"en", "fr", "nb", "nn", "xx"}

CategoryNames == {DataTypeMetadata[i].name : i \in DOMAIN DataTypeMetadata}

\* The counter of (language, category name); 0 when it does not exist.
Count(counts, l, n) ==
    IF l \in DOMAIN counts /\ n \in DOMAIN counts[l] THEN counts[l][n] ELSE 0

RECURSIVE SumCounts(_, _)
SumCounts(counts, keys) ==
    IF keys = {} THEN 0
    ELSE LET k == CHOOSE x \in keys : TRUE
         IN  Count(counts, k[1], k[2]) + SumCounts(counts, keys \ {k})

\* C9: in total-count mode a processed line raises exactly one counter by one,
\* that of (language of its first registry-language lemma, name of its category),
\* if its category is a known code and it has a registry-language lemma, and no
\* counter otherwise; the counters sum to the number of such lines.
C9_OneCountPerLexeme ==
    (parse_type = "total" /\ pc \notin {"start", "crashed"}) =>
        /\ \A line \in LexemeLines :
              LET after == ProcessLexemeTotal(lexical_category_counts, iso_to_name, line)
              IN  \A l \in AllCodes, n \in CategoryNames :
                      Count(after, l, n) =
                          Count(lexical_category_counts, l, n)
                          + (IF /\ Eligible(line, iso_to_name)
                                /\ l = FirstRegistryLanguage(line, iso_to_name)
                                /\ n = CategoryName(line.cat)
                             THEN 1 ELSE 0)
        /\ (batch = <<>> /\ reported = "none") =>
              /\ SumCounts(lexical_category_counts, AllCodes \X CategoryNames)
                    = expected.eligible
              /\ \A l \in AllCodes, n \in CategoryNames :
                    Count(lexical_category_counts, l, n)
                        = (IF <<l, n>> \in DOMAIN expected.tally
                           THEN expected.tally[<<l, n>>] ELSE 0)

\* C9 witness: a lexeme with lemmas in two registry languages, a lexeme whose
\* first lemma is in no registry language and a lexeme of an unknown category
\* were counted: two nouns for en, nothing else.
C9_Witness ==
    /\ parse_type = "total"
    /\ target_iso = NoTarget
    /\ Finished
    /\ seen = {NounHundTwoSenses, UnknownAnchorLine, OtherCategoryHund}
    /\ lexical_category_counts = ("en" :> ("nouns" :> 2))

\* The registry the target language should get: its own code, or the codes of
\* its sub-languages, each mapped to the language's name.
TargetRegistry(name) ==
    LET i    == CHOOSE i \in DOMAIN LanguageMetadata : LanguageMetadata[i].name = name
        data == LanguageMetadata[i].data
    IN  IF "iso" \in DOMAIN data THEN (data.iso :> name)
        ELSE [c \in {data.sub_languages[j].iso : j \in DOMAIN data.sub_languages} |-> name]

\* C10: for every target language of the metadata table the construction
\* succeeds and iso_to_name holds exactly the target's code, or the codes of its
\* sub-languages, mapped to the target's name.
C10_TargetRegistry ==
    (pc # "start" /\ target_iso # NoTarget) =>
        /\ pc # "crashed"
        /\ iso_to_name = TargetRegistry(target_iso)

\* C4: after a load_index that failed, word_index is empty, so that
\* get_word_info is empty for every word.
C4_FailedLoadLeavesEmpty ==
    (last_call.op = "load_index" /\ last_call.result # "loaded") =>
        word_index = EmptyMap

LookupWords == {"Hund", "hund", "sol", "absent"}

\* C5: after save_index(IndexPath) without a language and a later
\* load_index(IndexPath), get_word_info gives for every word what it gave when
\* the index was saved, and the empty result for the words absent then.
C5_SaveLoadRoundTrip ==
    (last_call.op = "load_index" /\ last_call.filepath = IndexPath
        /\ last_call.result = "loaded") =>
        \A w \in LookupWords : GetWordInfo(word_index, w) = GetWordInfo(snapshot, w)

\* C5 witness: an index of two words with a two-gloss entry was saved and loaded.
C5_Witness ==
    /\ last_call.op = "load_index"
    /\ last_call.filepath = IndexPath
    /\ last_call.result = "loaded"
    /\ DOMAIN word_index = {"hund", "sol"}
    /\ GetWordInfo(word_index, "Hund") = ("en" :> ("Q1084" :> ("en" :> "g3" @@ "fr" :> "g2")))
    /\ GetWordInfo(word_index, "absent") = EmptyMap

\* C11: every line the dump reader has read and not handed to the loop's batch
\* is purely structural ("[", "]", "," or empty): no line that carries a lexeme
\* is lost, the first line included.
C11_OnlyStructuralLinesSkipped == lost = {}

\* The ISO codes an entry of the metadata table declares, top-level and nested.
DeclaredCodes(i) ==
    LET data == LanguageMetadata[i].data
    IN  (IF "iso" \in DOMAIN data THEN {data.iso} ELSE {})
        \cup (IF "sub_languages" \in DOMAIN data
              THEN {data.sub_languages[j].iso : j \in DOMAIN data.sub_languages}
              ELSE {})

\* The first language in table order that declares the code.
FirstOwner(code) ==
    LET owners == {i \in DOMAIN LanguageMetadata : code \in DeclaredCodes(i)}
    IN  LanguageMetadata[CHOOSE i \in owners : \A j \in owners : i <= j].name

\* C12: without a target the registry holds every code the metadata table
\* declares, mapped to the language that declares it, and a code declared by
\* two languages keeps the language that comes first in the table.
C12_FirstDeclarationKept ==
    (pc \notin {"start", "crashed"} /\ target_iso = NoTarget) =>
        iso_to_name =
            [code \in UNION {DeclaredCodes(i) : i \in DOMAIN LanguageMetadata} |->
                FirstOwner(code)]

====
